---- MODULE Spec2Model ----
(***************************************************************************)
(* A model of neptune's matrix engine (src/src/matrix.rs): shape queries,  *)
(* element-wise and linear operations, the determinant/cofactor engine and *)
(* the two inversion algorithms (cofactor/adjugate, and Gaussian           *)
(* elimination with a shadow identity).                                    *)
(*                                                                         *)
(* A Matrix is a sequence of rows, each row a sequence of field elements.  *)
(* Rust indexes from 0 and TLA+ sequences from 1: m[i][j] of the source is *)
(* m[i+1][j+1] here; the parity of i+j is the same in both.                *)
(*                                                                         *)
(* A call ends in one of two ways: it returns a value (Ret) or it panics   *)
(* (Panic, with the place of the panic). An Option value is Some(x) or     *)
(* None.                                                                   *)
(***************************************************************************)
EXTENDS Integers, Sequences, FiniteSets

VARIABLES
  matrix,   \* the matrix a call is made on
  other,    \* the second operand of mat_mul
  va, vb,   \* the operands of the vector operations
  pc,       \* "idle" before a call, then the name of the call made (or its phase)
  shadow,   \* the shadow matrix of the invert pipeline
  ut,       \* the matrix upper_triangular returned to invert
  res,      \* the matrix solve returned to invert (_res)
  e_matrix, \* the working matrix handed to eliminate
  e_column, \* the column eliminate was last called on
  e_pivot,  \* the pivot row eliminate was last called with
  e_calls,  \* the number of calls of eliminate made
  ret       \* how the call ended

vars == <<matrix, other, va, vb, pc, shadow, ut, res, e_matrix, e_column, e_pivot, e_calls, ret>>

(***************************************************************************)
(* Bounds of the model.                                                    *)
(***************************************************************************)
\* Matrices have at most MaxN rows and at most MaxN columns.
MaxN == 2
\* Vectors handed to vec_add, vec_sub and hadamard_vec_mul have at most MaxLen elements.
MaxLen == 2
\* At most MaxCalls calls of eliminate are made one after the other on a working matrix.
MaxCalls == 3

(***************************************************************************)
(* The scalar field.  The source is generic over the engine E and uses its *)
(* scalar field Fr; the model instantiates Fr with the prime field of      *)
(* order P.                                                                *)
(***************************************************************************)
P == 3

Fr == 0 .. (P - 1)

zero == 0

one == 1 % P

add_assign(x, y) == (x + y) % P

sub_assign(x, y) == (x + P - y) % P

mul_assign(x, y) == (x * y) % P

Some(x) == [some |-> TRUE, val |-> x]

None == [some |-> FALSE, val |-> 0]

\* Field::inverse: None for zero, otherwise the multiplicative inverse.
inverse(x) ==
  IF x = zero THEN None
  ELSE Some(CHOOSE y \in Fr : (x * y) % P = 1)

(***************************************************************************)
(* How a call ends.                                                        *)
(***************************************************************************)
Ret(x) == [k |-> "ret", v |-> x]

Panic(why) == [k |-> "panic", v |-> why]

Pending == [k |-> "pending", v |-> ""]

(***************************************************************************)
(* Shape.                                                                  *)
(***************************************************************************)
rows(m) == Len(m)

\* columns panics with "not a matrix" on rows of unequal length.
NotAMatrix(m) == \E i \in 2 .. Len(m) : Len(m[i]) # Len(m[1])

columns(m) ==
  IF Len(m) > 0
    THEN IF NotAMatrix(m) THEN Panic("not a matrix") ELSE Ret(Len(m[1]))
    ELSE Ret(0)

is_square(m) ==
  LET c == columns(m) IN
  IF c.k = "panic" THEN c ELSE Ret(rows(m) = c.v)

(***************************************************************************)
(* Element-wise and linear operations.                                     *)
(***************************************************************************)
Min(x, y) == IF x <= y THEN x ELSE y

scalar_vec_mul(scalar, vec) == [i \in 1 .. Len(vec) |-> mul_assign(scalar, vec[i])]

scalar_mul(scalar, m) == [i \in 1 .. Len(m) |-> scalar_vec_mul(scalar, m[i])]

\* a.iter().zip(b.iter()): as many pairs as the shorter of the two.
Zip(a, b) == [i \in 1 .. Min(Len(a), Len(b)) |-> <<a[i], b[i]>>]

hadamard_vec_mul(a, b) ==
  IF Len(a) # Len(b) THEN Panic("assert_eq a.len b.len")
  ELSE Ret([i \in 1 .. Len(Zip(a, b)) |-> mul_assign(Zip(a, b)[i][1], Zip(a, b)[i][2])])

RECURSIVE Fold(_, _)
\* fold(zero, |acc, (x, y)| acc + x * y) over a sequence of pairs.
Fold(pairs, n) ==
  IF n = 0 THEN zero
  ELSE add_assign(Fold(pairs, n - 1), mul_assign(pairs[n][1], pairs[n][2]))

vec_mul(a, b) == Fold(Zip(a, b), Len(Zip(a, b)))

\* No length check: the zip stops at the shorter vector.
vec_add(a, b) ==
  [i \in 1 .. Len(Zip(a, b)) |-> add_assign(Zip(a, b)[i][1], Zip(a, b)[i][2])]

vec_sub(a, b) ==
  [i \in 1 .. Len(Zip(a, b)) |-> sub_assign(Zip(a, b)[i][1], Zip(a, b)[i][2])]

\* matrix[i][j] is read for all i, j below rows(matrix): out of bounds when a row is shorter.
transpose(m) ==
  LET size == rows(m) IN
  IF \E i \in 1 .. size : Len(m[i]) < size THEN Panic("index out of bounds")
  ELSE Ret([j \in 1 .. size |-> [i \in 1 .. size |-> m[i][j]]])

make_identity(size) ==
  [i \in 1 .. size |-> [j \in 1 .. size |-> IF i = j THEN one ELSE zero]]

is_identity(m) ==
  LET c == columns(m) IN
  IF c.k = "panic" THEN c
  ELSE Ret(\A i \in 1 .. rows(m) : \A j \in 1 .. c.v :
             m[i][j] = (IF i = j THEN one ELSE zero))

mat_mul(a, b) ==
  LET cb == columns(b) IN
  IF cb.k = "panic" THEN cb
  ELSE IF rows(a) # cb.v THEN Ret(None)
  ELSE LET b_t == transpose(b) IN
       IF b_t.k = "panic" THEN b_t
       ELSE IF rows(a) > 0 /\ cb.v > Len(b_t.v) THEN Panic("index out of bounds")
       ELSE Ret(Some([i \in 1 .. rows(a) |->
                       [j \in 1 .. cb.v |-> vec_mul(a[i], b_t.v[j])]]))

RECURSIVE ApplySum(_, _, _, _)
\* The inner loop of apply_matrix: val += row[j] * v[i] over the first n rows.
ApplySum(m, v, j, n) ==
  IF n = 0 THEN zero
  ELSE add_assign(ApplySum(m, v, j, n - 1), mul_assign(m[n][j], v[n]))

apply_matrix(m, v) ==
  LET sq == is_square(m) IN
  IF sq.k = "panic" THEN sq
  ELSE IF ~sq.v THEN Panic("Only square matrix can be applied to vector.")
  ELSE IF rows(m) # Len(v) THEN Panic("Matrix can only be applied to vector of same size.")
  ELSE Ret([j \in 1 .. Len(v) |-> ApplySum(m, v, j, rows(m))])

(***************************************************************************)
(* Determinant and cofactor engine.                                        *)
(***************************************************************************)
minor(m, i, j) ==
  LET sq == is_square(m) IN
  IF sq.k = "panic" THEN sq
  ELSE IF ~sq.v THEN Panic("assert is_square(matrix)")
  ELSE IF ~(rows(m) > 0) THEN Panic("assert size > 0")
  ELSE LET size == rows(m)
           keepR == SelectSeq([x \in 1 .. size |-> x], LAMBDA x : x # i)
           keepC == SelectSeq([x \in 1 .. size |-> x], LAMBDA x : x # j)
           new   == [r \in 1 .. Len(keepR) |->
                      [c \in 1 .. Len(keepC) |-> m[keepR[r]][keepC[c]]]]
           nsq   == is_square(new)
       IN IF nsq.k = "panic" THEN nsq
          ELSE IF ~nsq.v THEN Panic("assert is_square(new)")
          ELSE Ret(new)

\* The first panic among a sequence of call results, if any.
FirstPanic(rs) ==
  IF \E x \in 1 .. Len(rs) : rs[x].k = "panic"
    THEN rs[CHOOSE x \in 1 .. Len(rs) :
              rs[x].k = "panic" /\ \A y \in 1 .. (x - 1) : rs[y].k # "panic"]
    ELSE Ret(TRUE)

RECURSIVE SumSeq(_, _)
SumSeq(s, n) == IF n = 0 THEN zero ELSE add_assign(SumSeq(s, n - 1), s[n])

RECURSIVE determinant(_)
RECURSIVE cofactor(_, _, _)

\* cofactor without the checkerboard sign.
cofactor_NoSign(m, i, j) ==
  LET minor_det ==
        IF rows(m) = 1 THEN Ret(one)
        ELSE LET mn == minor(m, i, j) IN
             IF mn.k = "panic" THEN mn ELSE determinant(mn.v)
  IN IF minor_det.k = "panic" THEN minor_det
     ELSE Ret(add_assign(zero, minor_det.v))

cofactor(m, i, j) ==
  LET minor_det ==
        IF rows(m) = 1 THEN Ret(one)
        ELSE LET mn == minor(m, i, j) IN
             IF mn.k = "panic" THEN mn ELSE determinant(mn.v)
  IN IF minor_det.k = "panic" THEN minor_det
     ELSE IF (i + j) % 2 = 0
            THEN Ret(add_assign(zero, minor_det.v))
            ELSE Ret(sub_assign(zero, minor_det.v))

determinant(m) ==
  LET c == columns(m) IN
  IF c.k = "panic" THEN c
  ELSE LET cof == [j \in 1 .. c.v |-> cofactor(m, 1, j)]
           bad == FirstPanic(cof)
       IN IF bad.k = "panic" THEN bad
          ELSE Ret(SumSeq([j \in 1 .. c.v |-> mul_assign(m[1][j], cof[j].v)], c.v))

cofactor_matrix(m) ==
  LET sq == is_square(m) IN
  IF sq.k = "panic" THEN sq
  ELSE IF ~sq.v THEN Panic("assert is_square(matrix)")
  ELSE LET size == rows(m)
           cof  == [x \in 1 .. size * size |->
                     cofactor(m, ((x - 1) \div size) + 1, ((x - 1) % size) + 1)]
           bad  == FirstPanic(cof)
       IN IF bad.k = "panic" THEN bad
          ELSE Ret([i \in 1 .. size |-> [j \in 1 .. size |-> cof[(i - 1) * size + j].v]])

determinant_with_cofactor_matrix(m, cm) ==
  IF Len(m) = 0 \/ Len(cm) = 0 THEN Panic("index out of bounds")
  ELSE Ret(vec_mul(m[1], cm[1]))

\* invert_with_cofactors with the adjugate taken to be the cofactor matrix itself.
invert_with_cofactors_NoTranspose(m) ==
  LET cm == cofactor_matrix(m) IN
  IF cm.k = "panic" THEN cm
  ELSE LET det == determinant_with_cofactor_matrix(m, cm.v) IN
       IF det.k = "panic" THEN det
       ELSE LET inv == inverse(det.v) IN
            IF ~inv.some THEN Ret(None)
            ELSE Ret(Some(scalar_mul(inv.val, cm.v)))

\* invert_with_cofactors with determinant.inverse().unwrap() in place of the `?`.
invert_with_cofactors_Unwrap(m) ==
  LET cm == cofactor_matrix(m) IN
  IF cm.k = "panic" THEN cm
  ELSE LET det == determinant_with_cofactor_matrix(m, cm.v) IN
       IF det.k = "panic" THEN det
       ELSE LET adjugate == transpose(cm.v) IN
            IF adjugate.k = "panic" THEN adjugate
            ELSE LET inv == inverse(det.v) IN
                 IF ~inv.some THEN Panic("unwrap on None")
                 ELSE Ret(Some(scalar_mul(inv.val, adjugate.v)))

invert_with_cofactors(m) ==
  LET cm == cofactor_matrix(m) IN
  IF cm.k = "panic" THEN cm
  ELSE LET det == determinant_with_cofactor_matrix(m, cm.v) IN
       IF det.k = "panic" THEN det
       ELSE LET adjugate == transpose(cm.v) IN
            IF adjugate.k = "panic" THEN adjugate
            ELSE LET inv == inverse(det.v) IN
                 IF ~inv.some THEN Ret(None)
                 ELSE Ret(Some(scalar_mul(inv.val, adjugate.v)))

is_invertible(m) ==
  LET sq == is_square(m) IN
  IF sq.k = "panic" THEN sq
  ELSE IF ~sq.v THEN Ret(FALSE)
  ELSE LET det == determinant(m) IN
       IF det.k = "panic" THEN det ELSE Ret(det.v # zero)

(***************************************************************************)
(* Inversion by Gaussian elimination with a shadow matrix.                 *)
(***************************************************************************)
\* The rows of m other than row p, in order.
OtherRows(m, p) == SelectSeq([x \in 1 .. Len(m) |-> x], LAMBDA x : x # p)

\* eliminate that forgets to apply the row operations to the shadow.
eliminate_NoShadow(m, column, pivot_index, sh) ==
  IF pivot_index > Len(m) \/ column > Len(m[pivot_index])
    THEN Panic("index out of bounds")
  ELSE
  LET pivot     == m[pivot_index]
      pivot_val == pivot[column]
  IN
  IF ~(pivot_val # zero) THEN Panic("assert pivot_val != zero")
  ELSE
  LET inv_pivot == inverse(pivot_val).val
      others    == OtherRows(m, pivot_index)
      factor(i) == mul_assign(m[i][column], inv_pivot)
  IN
    Ret([result |->
           <<pivot>> \o
           [x \in 1 .. Len(others) |->
              LET i == others[x] IN
              IF m[i][column] = zero THEN m[i]
              ELSE vec_sub(m[i], scalar_vec_mul(factor(i), pivot))],
         shadow |-> sh])

\* eliminate returns the new matrix and leaves the updated shadow behind.
eliminate(m, column, pivot_index, sh) ==
  IF pivot_index > Len(m) \/ column > Len(m[pivot_index])
    THEN Panic("index out of bounds")
  ELSE
  LET pivot     == m[pivot_index]
      pivot_val == pivot[column]
  IN
  IF ~(pivot_val # zero) THEN Panic("assert pivot_val != zero")
  ELSE
  LET inv_pivot == inverse(pivot_val).val
      others    == OtherRows(m, pivot_index)
      factor(i) == mul_assign(m[i][column], inv_pivot)
      touched   == {i \in 1 .. Len(m) : i # pivot_index /\ m[i][column] # zero}
  IN
  IF \E i \in 1 .. Len(m) : i # pivot_index /\ column > Len(m[i])
    THEN Panic("index out of bounds")
  ELSE IF touched # {} /\ (pivot_index > Len(sh) \/ \E i \in touched : i > Len(sh))
    THEN Panic("index out of bounds")
  ELSE
    Ret([result |->
           <<pivot>> \o
           [x \in 1 .. Len(others) |->
              LET i == others[x] IN
              IF m[i][column] = zero THEN m[i]
              ELSE vec_sub(m[i], scalar_vec_mul(factor(i), pivot))],
         shadow |->
           [i \in 1 .. Len(sh) |->
              IF i \in touched
                THEN vec_sub(sh[i], scalar_vec_mul(factor(i), sh[pivot_index]))
                ELSE sh[i]]])

RECURSIVE UpperTriangularLoop(_, _, _, _, _)
\* The while loop of upper_triangular and the statements after it.
UpperTriangularLoop(curr, sh, column, result, shadow_result) ==
  IF Len(curr) > 1
    THEN LET e == eliminate(curr, column, 1, sh) IN
         IF e.k = "panic" THEN e
         ELSE UpperTriangularLoop(Tail(e.v.result), Tail(e.v.shadow), column + 1,
                                  Append(result, e.v.result[1]),
                                  Append(shadow_result, e.v.shadow[1]))
    ELSE IF Len(curr) = 0 \/ Len(sh) = 0 THEN Panic("index out of bounds")
    ELSE Ret([result |-> Append(result, curr[1]),
              shadow |-> Append(shadow_result, sh[1])])

upper_triangular(m, sh) ==
  LET sq == is_square(m) IN
  IF sq.k = "panic" THEN sq
  ELSE IF ~sq.v THEN Panic("assert is_square(matrix)")
  ELSE UpperTriangularLoop(m, sh, 1, <<>>, <<>>)

RECURSIVE SolveInner_NoShadow(_, _, _, _, _, _, _)
\* The inner loop of solve that forgets to subtract from the shadow row.
SolveInner_NoShadow(size, j, i, normalized, shadow_normalized, result, shadow_result) ==
  IF j > i THEN [normalized |-> normalized, shadow_normalized |-> shadow_normalized]
  ELSE LET idx == size - j + 1
           val == normalized[idx]
       IN SolveInner_NoShadow(size, j + 1, i,
                              vec_sub(normalized, scalar_vec_mul(val, result[j])),
                              shadow_normalized, result, shadow_result)

RECURSIVE SolveInner(_, _, _, _, _, _, _)
\* for j in 0..i of solve: j counts from 1 here, the row touched is size - j + 1.
SolveInner(size, j, i, normalized, shadow_normalized, result, shadow_result) ==
  IF j > i THEN [normalized |-> normalized, shadow_normalized |-> shadow_normalized]
  ELSE LET idx == size - j + 1
           val == normalized[idx]
       IN SolveInner(size, j + 1, i,
                     vec_sub(normalized, scalar_vec_mul(val, result[j])),
                     vec_sub(shadow_normalized, scalar_vec_mul(val, shadow_result[j])),
                     result, shadow_result)

Reverse(s) == [x \in 1 .. Len(s) |-> s[Len(s) + 1 - x]]

\* val.inverse().unwrap_or(one): no panic when val is zero.
unwrap_inverse_OrOne(val) ==
  LET inv == inverse(val) IN
  IF inv.some THEN Ret(inv.val) ELSE Ret(one)

\* val.inverse().unwrap(): a panic when val is zero.
unwrap_inverse(val) ==
  LET inv == inverse(val) IN
  IF inv.some THEN Ret(inv.val) ELSE Panic("unwrap on None: singular matrix")

RECURSIVE SolveLoop(_, _, _, _, _)
\* for i in 0..size of solve (i rows are done), then the two reversals.
SolveLoop(m, sh, i, result, shadow_result) ==
  LET size == rows(m) IN
  IF i >= size
    THEN Ret([result |-> Reverse(result), shadow |-> Reverse(shadow_result)])
  ELSE
  LET idx == size - i IN
  IF idx > Len(sh) \/ idx > Len(m[idx]) THEN Panic("index out of bounds")
  ELSE
  LET inv == unwrap_inverse(m[idx][idx]) IN
  IF inv.k = "panic" THEN inv
  ELSE
  LET done == SolveInner(size, 1, i, scalar_vec_mul(inv.v, m[idx]),
                         scalar_vec_mul(inv.v, sh[idx]), result, shadow_result)
  IN SolveLoop(m, sh, i + 1, Append(result, done.normalized),
               Append(shadow_result, done.shadow_normalized))

solve(m, sh) == SolveLoop(m, sh, 0, <<>>, <<>>)

\* invert as one call: the pipeline below runs it a phase at a time.
invert(m) ==
  LET c == columns(m) IN
  IF c.k = "panic" THEN c
  ELSE LET u == upper_triangular(m, make_identity(c.v)) IN
       IF u.k = "panic" THEN u
       ELSE LET s == solve(u.v.result, u.v.shadow) IN
            IF s.k = "panic" THEN s ELSE Ret(Some(s.v.shadow))

(***************************************************************************)
(* Inputs: every well-formed matrix of at most MaxN rows and columns, and  *)
(* every vector of at most MaxLen elements.                                *)
(***************************************************************************)
MatricesOf(r, c) == [1 .. r -> [1 .. c -> Fr]]

Matrices == UNION {MatricesOf(r, c) : r \in 0 .. MaxN, c \in 0 .. MaxN}

Vectors == UNION {[1 .. n -> Fr] : n \in 0 .. MaxLen}

(***************************************************************************)
(* Calls on one matrix.                                                    *)
(***************************************************************************)
Init ==
  /\ matrix \in Matrices
  /\ other = <<>>
  /\ va = <<>>
  /\ vb = <<>>
  /\ pc = "idle"
  /\ shadow = <<>>
  /\ ut = <<>>
  /\ res = <<>>
  /\ e_matrix = <<>>
  /\ e_column = 0
  /\ e_pivot = 0
  /\ e_calls = 0
  /\ ret = Pending

CallDeterminant ==
  /\ pc = "idle"
  /\ pc' = "determinant"
  /\ ret' = determinant(matrix)
  /\ UNCHANGED <<matrix, other, va, vb, e_matrix, e_column, e_pivot, e_calls, shadow, ut, res>>

CallIsInvertible ==
  /\ pc = "idle"
  /\ pc' = "is_invertible"
  /\ ret' = is_invertible(matrix)
  /\ UNCHANGED <<matrix, other, va, vb, e_matrix, e_column, e_pivot, e_calls, shadow, ut, res>>

CallInvertWithCofactors ==
  /\ pc = "idle"
  /\ pc' = "invert_with_cofactors"
  /\ ret' = invert_with_cofactors(matrix)
  /\ UNCHANGED <<matrix, other, va, vb, e_matrix, e_column, e_pivot, e_calls, shadow, ut, res>>

\* invert, up to the return of upper_triangular (or the panic before it).
InvertUpperTriangular ==
  /\ pc = "idle"
  /\ LET c == columns(matrix) IN
     IF c.k = "panic"
       THEN /\ pc' = "invert"
            /\ ret' = c
            /\ UNCHANGED <<shadow, ut>>
       ELSE LET u == upper_triangular(matrix, make_identity(c.v)) IN
            IF u.k = "panic"
              THEN /\ pc' = "invert"
                   /\ ret' = u
                   /\ UNCHANGED <<shadow, ut>>
              ELSE /\ pc' = "invert_ut"
                   /\ ut' = u.v.result
                   /\ shadow' = u.v.shadow
                   /\ UNCHANGED ret
  /\ UNCHANGED <<matrix, other, va, vb, e_matrix, e_column, e_pivot, e_calls, res>>

\* invert, from the call of solve to its own return.
InvertSolve ==
  /\ pc = "invert_ut"
  /\ pc' = "invert"
  /\ LET s == solve(ut, shadow) IN
     IF s.k = "panic"
       THEN /\ ret' = s
            /\ UNCHANGED <<shadow, res>>
       ELSE /\ res' = s.v.result
            /\ shadow' = s.v.shadow
            /\ ret' = Ret(Some(s.v.shadow))
  /\ UNCHANGED <<matrix, other, va, vb, e_matrix, e_column, e_pivot, e_calls, ut>>

Next ==
  \/ CallDeterminant
  \/ CallIsInvertible
  \/ CallInvertWithCofactors
  \/ InvertUpperTriangular
  \/ InvertSolve

Spec == Init /\ [][Next]_vars

(***************************************************************************)
(* Calls of mat_mul on two matrices.                                       *)
(***************************************************************************)
InitMul ==
  /\ matrix \in Matrices
  /\ other \in Matrices
  /\ va = <<>>
  /\ vb = <<>>
  /\ pc = "idle"
  /\ shadow = <<>>
  /\ ut = <<>>
  /\ res = <<>>
  /\ e_matrix = <<>>
  /\ e_column = 0
  /\ e_pivot = 0
  /\ e_calls = 0
  /\ ret = Pending

CallMatMul ==
  /\ pc = "idle"
  /\ pc' = "mat_mul"
  /\ ret' = mat_mul(matrix, other)
  /\ UNCHANGED <<matrix, other, va, vb, e_matrix, e_column, e_pivot, e_calls, shadow, ut, res>>

NextMul == CallMatMul

SpecMul == InitMul /\ [][NextMul]_vars

(***************************************************************************)
(* Calls of the vector operations on two vectors.                          *)
(***************************************************************************)
InitVec ==
  /\ matrix = <<>>
  /\ other = <<>>
  /\ va \in Vectors
  /\ vb \in Vectors
  /\ pc = "idle"
  /\ shadow = <<>>
  /\ ut = <<>>
  /\ res = <<>>
  /\ e_matrix = <<>>
  /\ e_column = 0
  /\ e_pivot = 0
  /\ e_calls = 0
  /\ ret = Pending

CallVecAdd ==
  /\ pc = "idle"
  /\ pc' = "vec_add"
  /\ ret' = Ret(vec_add(va, vb))
  /\ UNCHANGED <<matrix, other, va, vb, e_matrix, e_column, e_pivot, e_calls, shadow, ut, res>>

CallVecSub ==
  /\ pc = "idle"
  /\ pc' = "vec_sub"
  /\ ret' = Ret(vec_sub(va, vb))
  /\ UNCHANGED <<matrix, other, va, vb, e_matrix, e_column, e_pivot, e_calls, shadow, ut, res>>

CallHadamardVecMul ==
  /\ pc = "idle"
  /\ pc' = "hadamard_vec_mul"
  /\ ret' = hadamard_vec_mul(va, vb)
  /\ UNCHANGED <<matrix, other, va, vb, e_matrix, e_column, e_pivot, e_calls, shadow, ut, res>>

NextVec ==
  \/ CallVecAdd
  \/ CallVecSub
  \/ CallHadamardVecMul

SpecVec == InitVec /\ [][NextVec]_vars

(***************************************************************************)
(* Calls of eliminate, with any column and any pivot row, on a working     *)
(* matrix that starts as the matrix itself with the identity as shadow;    *)
(* a call works on what the call before it left.                           *)
(***************************************************************************)
InitElim ==
  /\ matrix \in UNION {MatricesOf(r, c) : r \in 1 .. MaxN, c \in 1 .. MaxN}
  /\ other = <<>>
  /\ va = <<>>
  /\ vb = <<>>
  /\ pc = "idle"
  /\ shadow = make_identity(rows(matrix))
  /\ ut = <<>>
  /\ res = <<>>
  /\ e_matrix = matrix
  /\ e_column = 0
  /\ e_pivot = 0
  /\ e_calls = 0
  /\ ret = Pending

CallEliminate ==
  /\ pc \in {"idle", "eliminate"}
  /\ ret.k # "panic"
  /\ e_calls < MaxCalls
  /\ pc' = "eliminate"
  /\ e_calls' = e_calls + 1
  /\ \E c \in 1 .. Len(e_matrix[1]), p \in 1 .. Len(e_matrix) :
       /\ e_column' = c
       /\ e_pivot' = p
       /\ LET e == eliminate(e_matrix, c, p, shadow) IN
          IF e.k = "panic"
            THEN /\ ret' = e
                 /\ UNCHANGED <<e_matrix, shadow>>
            ELSE /\ ret' = Ret(e.v.result)
                 /\ e_matrix' = e.v.result
                 /\ shadow' = e.v.shadow
  /\ UNCHANGED <<matrix, other, va, vb, ut, res>>

NextElim == CallEliminate

SpecElim == InitElim /\ [][NextElim]_vars

(***************************************************************************)
(* The mathematics the claims are stated against, defined apart from the   *)
(* code: the product of two conformable matrices, the identity, and the    *)
(* determinant as the signed sum over all permutations.                    *)
(***************************************************************************)
WellFormed(m) == ~NotAMatrix(m)

Cols(m) == IF Len(m) = 0 THEN 0 ELSE Len(m[1])

Square(m) == WellFormed(m) /\ Len(m) = Cols(m)

RECURSIVE DotTo(_, _, _, _, _)
\* The sum of a[i][k] * b[k][j] for k in 1 .. n, in the field.
DotTo(a, b, i, j, n) ==
  IF n = 0 THEN 0 ELSE (DotTo(a, b, i, j, n - 1) + a[i][n] * b[n][j]) % P

\* a * b for a of r x n and b of n x c.
Product(a, b) == [i \in 1 .. Len(a) |-> [j \in 1 .. Cols(b) |-> DotTo(a, b, i, j, Cols(a))]]

Identity(n) == [i \in 1 .. n |-> [j \in 1 .. n |-> IF i = j THEN 1 % P ELSE 0]]

Perms(n) == {f \in [1 .. n -> 1 .. n] : \A x, y \in 1 .. n : x # y => f[x] # f[y]}

Inversions(f, n) == Cardinality({xy \in (1 .. n) \X (1 .. n) : xy[1] < xy[2] /\ f[xy[1]] > f[xy[2]]})

RECURSIVE TermTo(_, _, _)
\* The product of m[i][f[i]] for i in 1 .. n, in the field.
TermTo(m, f, n) == IF n = 0 THEN 1 % P ELSE (TermTo(m, f, n - 1) * m[n][f[n]]) % P

RECURSIVE SumOver(_, _, _)
\* The signed sum of the terms of the permutations in S.
SumOver(m, n, S) ==
  IF S = {} THEN 0
  ELSE LET f == CHOOSE g \in S : TRUE
           t == TermTo(m, f, n)
       IN (SumOver(m, n, S \ {f}) + (IF Inversions(f, n) % 2 = 0 THEN t ELSE P - t)) % P

\* The determinant of a square matrix of size n >= 1.
LeibnizDet(m) == SumOver(m, Len(m), Perms(Len(m)))

\* m is square of size n >= 1 and has an inverse.
Invertible(m) == Square(m) /\ Len(m) >= 1 /\ LeibnizDet(m) # 0

\* The determinant the code computes is zero.
DeterminantZero(m) == determinant(m) = Ret(zero)

\* The determinant the code computes is not zero.
DeterminantNonZero(m) == LET d == determinant(m) IN d.k = "ret" /\ d.v # zero

\* r is the inverse of the square matrix m: mat_mul(m, r) is present and is the identity.
IsInverseOf(r, m) ==
  /\ LET mr == mat_mul(m, r) IN
       mr.k = "ret" /\ mr.v.some /\ is_identity(mr.v.val) = Ret(TRUE)
  /\ Len(r) = Len(m)
  /\ Square(r)
  /\ Product(m, r) = Identity(Len(m))

\* The call returned Some(x).
Present(r) == r.k = "ret" /\ r.v.some

(***************************************************************************)
(* The claims.                                                             *)
(***************************************************************************)

\* C1: for every square matrix M with determinant(M) != 0, invert(M) returns a
\* present result R and mat_mul(M, R) is the identity.
C1_InvertInvertible ==
  (pc = "invert" /\ Square(matrix) /\ DeterminantNonZero(matrix))
    => (Present(ret) /\ IsInverseOf(ret.v.val, matrix))

\* C2: whenever invert_with_cofactors(M) returns a present result R, R is the
\* inverse of M (mat_mul(M, R) is the identity); and it returns a present result
\* for every square M whose determinant is nonzero.
C2_CofactorInverse ==
  pc = "invert_with_cofactors" =>
    /\ Present(ret) => (Square(matrix) /\ IsInverseOf(ret.v.val, matrix))
    /\ (Square(matrix) /\ DeterminantNonZero(matrix)) => Present(ret)

\* A 2 x 2 matrix with nonzero off-diagonal entries was inverted by cofactors.
C2_Witness ==
  /\ pc = "invert_with_cofactors"
  /\ Present(ret)
  /\ Len(matrix) = 2
  /\ matrix[1][2] # 0
  /\ matrix[2][1] # matrix[1][2]

\* C3 as stated: for every square matrix M whose determinant is zero,
\* is_invertible(M) returns false and invert_with_cofactors(M) returns None
\* (no value, no panic).
C3_SingularAbsent_Original ==
  (Square(matrix) /\ DeterminantZero(matrix)) =>
    /\ pc = "is_invertible" => ret = Ret(FALSE)
    /\ pc = "invert_with_cofactors" => ret = Ret(None)

\* C3 amended: the same for every square matrix M of size n >= 1 whose
\* determinant is zero (the empty matrix has determinant zero and makes
\* invert_with_cofactors panic on row 0).
C3_SingularAbsent ==
  (Square(matrix) /\ Len(matrix) >= 1 /\ DeterminantZero(matrix)) =>
    /\ pc = "is_invertible" => ret = Ret(FALSE)
    /\ pc = "invert_with_cofactors" => ret = Ret(None)

\* invert_with_cofactors was called on a singular 2 x 2 matrix that is not zero.
C3_Witness ==
  /\ pc = "invert_with_cofactors"
  /\ Len(matrix) = 2
  /\ Square(matrix)
  /\ DeterminantZero(matrix)
  /\ matrix[1][1] # 0
  /\ ret = Ret(None)

\* C4: for every square matrix M of size n >= 1, determinant(M) is the signed
\* sum over all permutations of the products of entries, in the field.
C4_DeterminantIsLeibniz ==
  (pc = "determinant" /\ Square(matrix) /\ Len(matrix) >= 1)
    => ret = Ret(LeibnizDet(matrix))

\* The determinant of a square matrix of the largest size, with both permutations'
\* terms nonzero, was computed.
C4_Witness ==
  /\ pc = "determinant"
  /\ Square(matrix)
  /\ Len(matrix) = MaxN
  /\ ret.k = "ret"
  /\ ret.v # 0
  /\ \A i \in 1 .. MaxN : \A j \in 1 .. MaxN : matrix[i][j] # 0

\* C5: the inverse round trip under right-application, for the matrices M that
\* have an inverse (determinant nonzero) and every vector v of M's width:
\* invert(M) returns R with apply_matrix(R, apply_matrix(M, v)) = v and
\* apply_matrix(M, apply_matrix(R, v)) = v.
C5_InverseRoundTrip ==
  (pc = "invert" /\ Square(matrix) /\ DeterminantNonZero(matrix)) =>
    /\ Present(ret)
    /\ \A v \in [1 .. Len(matrix) -> Fr] :
         /\ apply_matrix(matrix, v).k = "ret"
         /\ apply_matrix(ret.v.val, apply_matrix(matrix, v).v) = Ret(v)
         /\ apply_matrix(ret.v.val, v).k = "ret"
         /\ apply_matrix(matrix, apply_matrix(ret.v.val, v).v) = Ret(v)

\* C6: mat_mul(A, B) returns None whenever rows(A) != columns(B); a present
\* result R is the product of A and B: rows(A) rows, columns(B) columns and
\* R[i][j] the sum of A[i][k] * B[k][j] over every column index k of A (each of
\* which has to be a row index of B).
C6_MatMulIsProduct ==
  pc = "mat_mul" =>
    /\ Len(matrix) # Cols(other) => ret = Ret(None)
    /\ Present(ret) =>
         /\ Cols(matrix) <= Len(other)
         /\ ret.v.val = Product(matrix, other)

\* C7 as stated, on the singular square matrices of size n >= 1: invert(M) does
\* not return, it panics on the division by a zero diagonal entry in solve
\* (Phase 3).
C7_SingularPanicsInSolve_Original ==
  (pc = "invert" /\ Square(matrix) /\ Len(matrix) >= 1 /\ DeterminantZero(matrix))
    => ret = Panic("unwrap on None: singular matrix")

\* C7 amended: for every singular square matrix M, invert(M) does not return: it
\* panics, on the division by a zero diagonal entry in solve (Phase 3) when
\* upper_triangular returned, and before that on the nonzero-pivot assertion of
\* eliminate (Phase 2) when a zero stands at a pivot position (on the read of row
\* 0 in upper_triangular when M is empty).
C7_SingularPanics ==
  (pc = "invert" /\ Square(matrix) /\ DeterminantZero(matrix)) =>
    /\ ret.k = "panic"
    /\ ret.v = (IF Len(matrix) = 0 THEN "index out of bounds"
                ELSE IF ut = <<>> THEN "assert pivot_val != zero"
                ELSE "unwrap on None: singular matrix")

\* invert of a singular 2 x 2 matrix with nonzero pivot went through an
\* elimination and panicked in solve.
C7_Witness ==
  /\ pc = "invert"
  /\ Len(matrix) = 2
  /\ Square(matrix)
  /\ DeterminantZero(matrix)
  /\ matrix[2][1] # 0
  /\ ut # <<>>
  /\ ret = Panic("unwrap on None: singular matrix")

\* C8: vec_add(a, b) and vec_sub(a, b) panic when len(a) != len(b); when
\* len(a) = len(b) the result has that length and is the element-wise sum or
\* difference.
C8_VecAddSubLengthChecked ==
  /\ (pc \in {"vec_add", "vec_sub"} /\ Len(va) # Len(vb)) => ret.k = "panic"
  /\ (pc = "vec_add" /\ Len(va) = Len(vb))
       => ret = Ret([i \in 1 .. Len(va) |-> (va[i] + vb[i]) % P])
  /\ (pc = "vec_sub" /\ Len(va) = Len(vb))
       => ret = Ret([i \in 1 .. Len(va) |-> (va[i] + P - vb[i]) % P])

\* C9: for every well-formed matrix M that is not square, determinant(M),
\* invert(M) and invert_with_cofactors(M) each panic and return no value. Stated
\* on the matrices that have an entry (at least one row and one column), a
\* single row of two or more elements among them.
C9_SquarenessEnforced ==
  (/\ pc \in {"determinant", "invert", "invert_with_cofactors"}
   /\ WellFormed(matrix)
   /\ Len(matrix) >= 1
   /\ Cols(matrix) >= 1
   /\ Len(matrix) # Cols(matrix))
    => ret.k = "panic"

UpperTriangularForm(u) ==
  \A i \in 1 .. Len(u) : \A j \in 1 .. (i - 1) : j <= Len(u[i]) /\ u[i][j] = 0

\* C10: in invert, started with shadow = identity: when upper_triangular has
\* returned U, U is upper triangular, has rows(M) rows and shadow * M = U; when
\* solve has returned, the matrix it returned is the identity and shadow * M is
\* the identity.
C10_ShadowLockStep ==
  /\ pc = "invert_ut" =>
       /\ UpperTriangularForm(ut)
       /\ Len(ut) = Len(matrix)
       /\ Product(shadow, matrix) = ut
       /\ mat_mul(shadow, matrix) = Ret(Some(ut))
  /\ (pc = "invert" /\ ret.k = "ret") =>
       /\ is_identity(res) = Ret(TRUE)
       /\ res = Identity(Len(matrix))
       /\ Product(shadow, matrix) = Identity(Len(matrix))
       /\ mat_mul(shadow, matrix) = Ret(Some(Identity(Len(matrix))))

\* invert of a matrix of the largest size without a zero entry ran both phases,
\* every row taking part in an elimination, and returned.
C10_Witness ==
  /\ pc = "invert"
  /\ ret.k = "ret"
  /\ Len(matrix) = MaxN
  /\ \A i \in 1 .. MaxN : \A j \in 1 .. MaxN : matrix[i][j] # 0
  /\ ret.v.val = shadow

\* Row k of m is (row k of sh) * m0, for every k.
RowForRow(m, sh, m0) == Len(sh) = Len(m) /\ Product(sh, m0) = m

\* The place in eliminate's result of row i of its argument, for pivot row p.
PlaceOf(i, p) == IF i = p THEN 1 ELSE IF i < p THEN i + 1 ELSE i

\* C11: a call eliminate(M, column, p, shadow) with M[p][column] != 0 returns;
\* every row of the returned matrix but the first has zero in column; the rows
\* that had zero in column are returned unchanged; and if row k of M was (row k
\* of shadow) * M0 for every k before the call, then row k of the returned
\* matrix is (row k of the updated shadow) * M0 for every k after it.
C11_EliminateLockStep ==
  [][(pc' = "eliminate" /\ e_matrix[e_pivot'][e_column'] # 0) =>
       /\ ret'.k = "ret"
       /\ \A k \in 2 .. Len(e_matrix') : e_matrix'[k][e_column'] = 0
       /\ \A i \in 1 .. Len(e_matrix) :
            (i # e_pivot' /\ e_matrix[i][e_column'] = 0)
              => e_matrix'[PlaceOf(i, e_pivot')] = e_matrix[i]
       /\ RowForRow(e_matrix, shadow, matrix) => RowForRow(e_matrix', shadow', matrix)]_vars

\* C12: invert never returns a wrong answer. For every well-formed square matrix
\* M of size n >= 1, if invert(M) returns, the result is present, is an n x n
\* matrix R with mat_mul(M, R) the identity, and is the result of
\* invert_with_cofactors(M); invert returns no result for a singular M.
C12_InvertNeverWrong ==
  (pc = "invert" /\ Square(matrix) /\ Len(matrix) >= 1) =>
    /\ ret.k = "ret" =>
         /\ Present(ret)
         /\ Len(ret.v.val) = Len(matrix)
         /\ \A i \in 1 .. Len(matrix) : Len(ret.v.val[i]) = Len(matrix)
         /\ IsInverseOf(ret.v.val, matrix)
         /\ invert_with_cofactors(matrix) = ret
    /\ (DeterminantZero(matrix) \/ LeibnizDet(matrix) = 0) => ret.k = "panic"

\* invert returned the inverse of a matrix of the largest size that is not
\* triangular and not its own inverse.
C12_Witness ==
  /\ pc = "invert"
  /\ Present(ret)
  /\ Len(matrix) = MaxN
  /\ matrix[2][1] # 0
  /\ matrix[1][2] # 0
  /\ ret.v.val # matrix

====
